---- MODULE Spec2Model ----
(***************************************************************************)
(* jupyterhub-cost-monitoring: the date-range parser of app.py, the TTL    *)
(* cache that fronts the upstream queries, the billing aggregation of      *)
(* query_cost_aws.py, the usage aggregation of query_usage.py and the      *)
(* share query of prometheus_client.py, as state machines.                 *)
(*                                                                         *)
(* Calendar dates are day ordinals (date.toordinal()); a YYYY-MM-DD string *)
(* orders and compares exactly as its ordinal does.  Money is counted in   *)
(* mills (1/1000 USD) where the billing API reports it and in cents where  *)
(* the code has formatted it with two decimals.  Usage is counted in whole *)
(* units, a cost factor is the exact quotient of two usage totals, and a   *)
(* disk-usage share is counted in quarters.                                *)
(***************************************************************************)
EXTENDS Integers, Sequences, FiniteSets, TLC

VARIABLES
    \* ---- app.py: one request through _parse_from_to_in_query_params
    now_date,       \* datetime.now(timezone.utc).date()
    args_from,      \* request.args "from"
    args_to,        \* request.args "to"
    parsed,         \* what the parser did: [outcome, from_date, to_date]
    \* ---- cache.py: the store behind ttl_lru_cache
    clock,          \* time.time(), in ticks
    cache,          \* access-ordered entries [key, value, stamp], oldest first
    invocations,    \* how often the wrapped operation has run
    \* ---- observations of the cache's callers (history, read by no action)
    last,           \* the most recent call of the single caller
    recent,         \* per key: its latest call and its latest computation
    lastUse,        \* per key: ordinal of the call that last touched it
    gone,           \* keys evicted since they were last computed
    \* ---- concurrent callers of the cache
    pc,             \* per caller: "idle", "lookup", "compute", "store", "done"
    targ,           \* per caller: the arguments of its call
    tval,           \* per caller: the value it computed or was handed
    \* ---- query_cost_aws.py: one call of a billing aggregation
    op,             \* the operation that ran, "idle" between calls
    request,        \* its arguments
    upstream,       \* the responses the billing API holds for its queries
    outcome,        \* "ok", or the exception that ended the call
    result,         \* the value returned
    processed_response, \* per-component: the local of that name at exit
    ce_calls,       \* billing API calls the operation issued
    home_storage_costs, \* per-user costs: the per-component records it got
    \* ---- query_usage.py, prometheus_client.py: the metrics side of a call
    metrics,        \* the payloads the metrics store holds for its queries
    prom_calls,     \* metrics store calls the operation issued
    absolute_usage, \* query_usage: the daily absolute records of all queries
    cost_factors,   \* query_usage: the records after normalization
    \* ---- functools.cache of _get_component_name and the log, per process
    component_memo, \* service names outside the table it holds an answer for
    warnings        \* per service name: "not categorized" warnings logged

dateVars == <<now_date, args_from, args_to, parsed>>
storeVars == <<clock, cache, invocations>>
histVars == <<last, recent, lastUse, gone>>
callerVars == <<pc, targ, tval>>
costVars == <<op, request, upstream, outcome, result, processed_response, ce_calls,
              home_storage_costs>>
usageVars == <<metrics, prom_calls, absolute_usage, cost_factors>>
logVars == <<component_memo, warnings>>

vars == <<now_date, args_from, args_to, parsed, clock, cache, invocations,
          last, recent, lastUse, gone, pc, targ, tval,
          op, request, upstream, outcome, result, processed_response, ce_calls,
          home_storage_costs, metrics, prom_calls, absolute_usage, cost_factors,
          component_memo, warnings>>

----------------------------------------------------------------------------
(* Bounds *)

MaxDay == 5          \* day ordinals 0..MaxDay for "now" and the query params
NumKeys == 3         \* distinct argument tuples handed to a cached operation
MaxClock == 3        \* the clock runs 0..MaxClock
MaxCalls == 5        \* calls the single caller makes
MaxInvocations == 3  \* runs of the wrapped operation by the concurrent callers
NumCallers == 2      \* request threads calling a cached operation at once
Capacity == 2        \* entries the cache may hold (maxsize)
Lifetime == 2        \* ticks an entry stays valid (seconds_to_live)
MaxDates == 2        \* days in the queried billing period
MaxLines == 3        \* service lines in one grouped billing response
MaxTags == 2         \* tag values in one tag listing
MaxSamples == 3      \* samples the metrics store holds for one query_usage call
MaxFaultySamples == 1 \* samples it holds when one of its answers is faulty
MaxShares == 2       \* share samples it holds for one per-user cost call

----------------------------------------------------------------------------
(* app.py : _parse_from_to_in_query_params *)

DefaultDays == 30    \* timedelta(days=30)

Days == 0..MaxDay

\* A query parameter: absent (or empty), a date, a full timestamp, or text
\* datetime.fromisoformat rejects.
QueryParams ==
    [kind : {"absent", "garbage"}, day : {0}, hour : {0}]
        \cup [kind : {"date"}, day : Days, hour : {0}]
        \cup [kind : {"datetime"}, day : Days, hour : {15}]

\* datetime.fromisoformat(s).date(): the time of day is dropped
fromisoformat_date(p) == p.day

Parsable(p) == p.kind \in {"date", "datetime"}

NoRange == [outcome |-> "none", from_date |-> 0, to_date |-> 0]

\* the two adjustments of lines 43-49, on dates already parsed
ClampToNow(to_date, now) ==
    IF to_date + 1 > now THEN now ELSE to_date + 1

AdjustFrom(from_date, to_date, now) ==
    IF from_date >= now THEN to_date - 1 ELSE from_date

parse_from_to_in_query_params(now, pfrom, pto) ==
    IF pto.kind = "garbage" \/ pfrom.kind = "garbage"
    THEN [outcome |-> "ValueError", from_date |-> 0, to_date |-> 0]
    ELSE
        LET to0   == IF pto.kind # "absent" THEN fromisoformat_date(pto) ELSE now
            from0 == IF pfrom.kind # "absent" THEN fromisoformat_date(pfrom)
                     ELSE to0 - DefaultDays
            to1   == ClampToNow(to0, now)
            from1 == AdjustFrom(from0, to1, now)
        IN  [outcome |-> "ok", from_date |-> from1, to_date |-> to1]

DateStart ==
    /\ now_date = 0
    /\ args_from = [kind |-> "absent", day |-> 0, hour |-> 0]
    /\ args_to = [kind |-> "absent", day |-> 0, hour |-> 0]
    /\ parsed = NoRange

\* one HTTP request: the handler reads the clock and the two parameters
ParseRequest ==
    \E now \in Days, pfrom \in QueryParams, pto \in QueryParams :
        /\ now >= now_date
        /\ now_date' = now
        /\ args_from' = pfrom
        /\ args_to' = pto
        /\ parsed' = parse_from_to_in_query_params(now, pfrom, pto)
        /\ UNCHANGED <<storeVars, histVars, callerVars, costVars, usageVars, logVars>>

----------------------------------------------------------------------------
(* cache.py : ttl_lru_cache, the wrapper around query_hub_names,            *)
(* query_total_costs, ... and query_prometheus.  The store is an            *)
(* access-ordered map: a sequence of entries, least recently used first.    *)

Keys == 1..NumKeys
Callers == 1..NumCallers

\* the concurrent callers share two argument tuples: one to collide on, one
\* to tell apart from it
ConcKeys == {1, 2}

\* the wrapped operation: its n-th run, for arguments k, answers <<k, n>>
Upstream(k, n) == <<k, n>>

RECURSIVE Find(_, _)
\* position of the entry of key k in store c, 0 when there is none
Find(c, k) ==
    IF c = <<>> THEN 0
    ELSE IF c[Len(c)].key = k THEN Len(c)
    ELSE Find(SubSeq(c, 1, Len(c) - 1), k)

KeysOf(c) == {c[i].key : i \in 1..Len(c)}

Without(c, i) == SubSeq(c, 1, i - 1) \o SubSeq(c, i + 1, Len(c))

FreshNever(e, now) == TRUE

\* an entry is valid while less than the lifetime has passed since its stamp
Fresh(e, now) == now - e.stamp < Lifetime

TouchNot(c, i) == c

\* a hit makes the entry the most recently used
Touch(c, i) == Append(Without(c, i), c[i])

InsertKeepOld(c, e) ==
    Append(IF Len(c) >= Capacity THEN Tail(c) ELSE c, e)

\* store e: replace the entry of the same key, else make room by dropping the
\* least recently used entry, and put e last
Insert(c, e) ==
    LET i == Find(c, e.key)
        d == IF i # 0 THEN Without(c, i) ELSE c
    IN  Append(IF Len(d) >= Capacity THEN Tail(d) ELSE d, e)

Hit(c, k, now) == Find(c, k) # 0 /\ Fresh(c[Find(c, k)], now)

NoCall == [key |-> 0, hit |-> FALSE, value |-> <<0, 0>>, at |-> 0,
           prevAt |-> -1, prevValue |-> <<0, 0>>, prevComputed |-> -1,
           prevGone |-> FALSE, before |-> {}, useBefore |-> <<>>, full |-> FALSE,
           ran |-> 0]

NoHistory == [at |-> -1, value |-> <<0, 0>>, computed |-> -1]

StoreStart ==
    /\ clock = 0
    /\ cache = <<>>
    /\ invocations = 0

HistStart ==
    /\ last = NoCall
    /\ recent = [k \in Keys |-> NoHistory]
    /\ lastUse = [k \in Keys |-> 0]
    /\ gone = {}

CallerStart ==
    /\ pc = [t \in Callers |-> "idle"]
    /\ targ = [t \in Callers |-> 0]
    /\ tval = [t \in Callers |-> <<0, 0>>]

Tick ==
    /\ clock < MaxClock
    /\ clock' = clock + 1
    /\ UNCHANGED <<cache, invocations, dateVars, histVars, callerVars, costVars, usageVars, logVars>>

\* calls made so far by the single caller
CallsMade == CHOOSE m \in 0..MaxCalls :
                /\ \A j \in Keys : lastUse[j] <= m
                /\ \E j \in Keys : lastUse[j] = m

\* one call of the wrapped function by a single caller: lookup, and on a miss
\* the computation and the insert
CachedCall(k) ==
    LET hit   == Hit(cache, k, clock)
        value == IF hit THEN cache[Find(cache, k)].value
                 ELSE Upstream(k, invocations + 1)
        c2    == IF hit THEN Touch(cache, Find(cache, k))
                 ELSE Insert(cache, [key |-> k, value |-> value, stamp |-> clock])
        n     == CallsMade + 1
    IN  /\ n <= MaxCalls
        /\ cache' = c2
        /\ invocations' = IF hit THEN invocations ELSE invocations + 1
        /\ last' = [key |-> k, hit |-> hit, value |-> value, at |-> clock,
                    prevAt |-> recent[k].at, prevValue |-> recent[k].value,
                    prevComputed |-> recent[k].computed, prevGone |-> k \in gone,
                    before |-> KeysOf(cache), useBefore |-> lastUse,
                    full |-> Len(cache) >= Capacity,
                    ran |-> IF hit THEN 0 ELSE 1]
        /\ recent' = [recent EXCEPT ![k] =
                        [at |-> clock, value |-> value,
                         computed |-> IF hit THEN @.computed ELSE clock]]
        /\ lastUse' = [lastUse EXCEPT ![k] = n]
        /\ gone' = (gone \cup (KeysOf(cache) \ KeysOf(c2))) \ {k}
        /\ UNCHANGED <<clock, dateVars, callerVars, costVars, usageVars, logVars>>

Call == \E k \in Keys : CachedCall(k)

\* ---- the same store under several callers.  Lookup and insert each run
\* under the cache's lock, so each is one step; the wrapped operation runs
\* outside the lock, between them.

Begin(t, k) ==
    /\ pc[t] = "idle"
    /\ pc' = [pc EXCEPT ![t] = "lookup"]
    /\ targ' = [targ EXCEPT ![t] = k]
    /\ UNCHANGED <<tval, storeVars, dateVars, histVars, costVars, usageVars, logVars>>

LookupStep(t) ==
    /\ pc[t] = "lookup"
    /\ IF Hit(cache, targ[t], clock)
       THEN /\ tval' = [tval EXCEPT ![t] = cache[Find(cache, targ[t])].value]
            /\ cache' = Touch(cache, Find(cache, targ[t]))
            /\ pc' = [pc EXCEPT ![t] = "done"]
       ELSE /\ pc' = [pc EXCEPT ![t] = "compute"]
            /\ UNCHANGED <<tval, cache>>
    /\ UNCHANGED <<targ, clock, invocations, dateVars, histVars, costVars, usageVars, logVars>>

ComputeStep(t) ==
    /\ pc[t] = "compute"
    /\ invocations < MaxInvocations
    /\ invocations' = invocations + 1
    /\ tval' = [tval EXCEPT ![t] = Upstream(targ[t], invocations + 1)]
    /\ pc' = [pc EXCEPT ![t] = "store"]
    /\ UNCHANGED <<targ, clock, cache, dateVars, histVars, costVars, usageVars, logVars>>

StoreStep(t) ==
    /\ pc[t] = "store"
    /\ cache' = Insert(cache, [key |-> targ[t], value |-> tval[t], stamp |-> clock])
    /\ pc' = [pc EXCEPT ![t] = "done"]
    /\ UNCHANGED <<targ, tval, clock, invocations, dateVars, histVars, costVars, usageVars, logVars>>

Return(t) ==
    /\ pc[t] = "done"
    /\ pc' = [pc EXCEPT ![t] = "idle"]
    /\ targ' = [targ EXCEPT ![t] = 0]
    /\ tval' = [tval EXCEPT ![t] = <<0, 0>>]
    /\ UNCHANGED <<storeVars, dateVars, histVars, costVars, usageVars, logVars>>

----------------------------------------------------------------------------
(* query_cost_aws.py : the billing aggregation.  An amount is an integer    *)
(* number of mills as the API reports it and of cents once formatted.      *)

None == "None"

\* Python truthiness of an optional string argument
Falsy(x) == x = None \/ x = ""

EC2_OTHER == "EC2 - Other"
EC2_COMPUTE == "Amazon Elastic Compute Cloud - Compute"
EFS == "Amazon Elastic File System"
EKS == "Amazon Elastic Container Service for Kubernetes"
UNLISTED == "Amazon Unlisted Service"

Services == {EC2_OTHER, EC2_COMPUTE, EFS, EKS, UNLISTED}

\* const_cost_aws.SERVICE_COMPONENT_MAP
SERVICE_COMPONENT_MAP ==
    (EC2_OTHER :> "compute") @@ (EC2_COMPUTE :> "compute")
        @@ (EFS :> "home storage") @@ (EKS :> "core")

Components == {"compute", "home storage", "core", "other"}

get_component_name(service_name) ==
    IF service_name \in DOMAIN SERVICE_COMPONENT_MAP
    THEN SERVICE_COMPONENT_MAP[service_name]
    ELSE "other"

\* f"{cost:.2f}": mills to cents, to the nearest cent
Fmt2(mills) == (mills + 5) \div 10

\* float(entry["cost"]): cents back to mills
ParseCost(cents) == cents * 10

\* ---- what the billing API may answer

\* UnblendedCost of one service line of a day, in mills
Billed ==
    (EC2_OTHER :> 10000) @@ (EC2_COMPUTE :> 3004) @@ (EFS :> 5004)
        @@ (EKS :> 2400) @@ (UNLISTED :> 1006)

\* the storage-tagged part of EC2 - Other of a day, in mills
HomeAmounts == {3004, 12006}

KeysIn(groups) == {groups[i].Key : i \in 1..Len(groups)}

RECURSIVE GroupLists(_)
\* the Groups of one day: at most n lines, one per service, in any order
GroupLists(n) ==
    IF n = 0 THEN {<<>>}
    ELSE LET prev == GroupLists(n - 1)
         IN  prev \cup UNION {
                 {Append(g, [Key |-> x, Amount |-> Billed[x]]) :
                     x \in Services \ KeysIn(g)} : g \in prev}

RECURSIVE DayLists(_, _)
\* the Groups of d days holding at most n lines together
DayLists(d, n) ==
    IF d = 0 THEN {<<>>}
    ELSE UNION {{Append(r, g) : r \in DayLists(d - 1, n - Len(g))} :
                    g \in GroupLists(n)}

ResultsByTime(days) ==
    [i \in 1..Len(days) |-> [Start |-> i, Groups |-> days[i]]]

HomeGroupLists ==
    {<<>>} \cup {<<[Key |-> EC2_OTHER, Amount |-> a]>> : a \in HomeAmounts}

\* what the billing API does with one get_cost_and_usage call: it answers in
\* full, answers with a next-page token, or the call raises
Answers == {"complete", "truncated", "error"}

\* a get_cost_and_usage response
Response(token, results) ==
    [Fails |-> FALSE, NextPageToken |-> token, ResultsByTime |-> results]

\* the call raises botocore's ClientError and there is no response
Answer(kind, results) ==
    IF kind = "error"
    THEN [Fails |-> TRUE, NextPageToken |-> FALSE, ResultsByTime |-> <<>>]
    ELSE Response(kind = "truncated", results)

\* ---- query_aws_cost_explorer

query_aws_cost_explorer_unchecked(response) ==
    IF response.Fails
    THEN [raised |-> TRUE, exception |-> "ClientError", response |-> response]
    ELSE [raised |-> FALSE, exception |-> "none", response |-> response]

\* one get_cost_and_usage call: its exception passes through, and a
\* next-page token raises ValueError
query_aws_cost_explorer(response) ==
    IF response.Fails
    THEN [raised |-> TRUE, exception |-> "ClientError", response |-> response]
    ELSE IF response.NextPageToken
    THEN [raised |-> TRUE, exception |-> "ValueError", response |-> response]
    ELSE [raised |-> FALSE, exception |-> "none", response |-> response]

\* ---- dicts as sequences of [k, v] in insertion order

DictFind(d, k) ==
    IF \E i \in 1..Len(d) : d[i].k = k
    THEN CHOOSE i \in 1..Len(d) : d[i].k = k
    ELSE 0

DictHas(d, k) == DictFind(d, k) # 0

DictGet(d, k, default) ==
    IF DictHas(d, k) THEN d[DictFind(d, k)].v ELSE default

DictSet(d, k, v) ==
    IF DictHas(d, k)
    THEN [d EXCEPT ![DictFind(d, k)] = [k |-> k, v |-> v]]
    ELSE Append(d, [k |-> k, v |-> v])

\* ---- query_total_costs_per_component, lines 410-430

RECURSIVE CoalesceGroups(_, _, _)
\* the inner loop over e["Groups"]: component is the function's own
\* variable, assigned only while it is falsy
CoalesceGroups(groups, component, component_costs) ==
    IF groups = <<>>
    THEN [component |-> component, component_costs |-> component_costs]
    ELSE LET g == Head(groups)
             c == IF Falsy(component) THEN get_component_name(g.Key)
                  ELSE component
         IN  CoalesceGroups(Tail(groups), c,
                 DictSet(component_costs, c,
                         DictGet(component_costs, c, 0) + g.Amount))

ComponentEntries(date, component_costs) ==
    [i \in 1..Len(component_costs) |->
        [date |-> date, cost |-> Fmt2(component_costs[i].v),
         field |-> "component", label |-> component_costs[i].k]]

RECURSIVE CoalesceDates(_, _, _)
\* the outer loop over response["ResultsByTime"]
CoalesceDates(results, component, processed) ==
    IF results = <<>> THEN processed
    ELSE LET e == Head(results)
             r == CoalesceGroups(e.Groups, component, <<>>)
         IN  CoalesceDates(Tail(results), r.component,
                 processed \o ComponentEntries(e.Start, r.component_costs))

\* ---- the calls of _get_component_name the two loops make, in order

RECURSIVE LookupsInGroups(_, _)
LookupsInGroups(groups, component) ==
    IF groups = <<>> THEN <<>>
    ELSE IF Falsy(component)
         THEN <<Head(groups).Key>>
                \o LookupsInGroups(Tail(groups),
                                   get_component_name(Head(groups).Key))
         ELSE LookupsInGroups(Tail(groups), component)

RECURSIVE LookupsInDates(_, _)
LookupsInDates(results, component) ==
    IF results = <<>> THEN <<>>
    ELSE LET e == Head(results)
         IN  LookupsInGroups(e.Groups, component)
                \o LookupsInDates(Tail(results),
                        CoalesceGroups(e.Groups, component, <<>>).component)

\* @functools.cache: the body of _get_component_name runs for a name the
\* memo does not hold, and warns when the table does not list the name.  For
\* a listed name the memo changes neither the answer nor the log, so only the
\* names outside the table are kept.
RECURSIVE get_component_name_cached(_, _, _)
get_component_name_cached(names, memo, warned) ==
    IF names = <<>> THEN [component_memo |-> memo, warnings |-> warned]
    ELSE LET service_name == Head(names)
         IN  IF service_name \in memo
                    \/ service_name \in DOMAIN SERVICE_COMPONENT_MAP
             THEN get_component_name_cached(Tail(names), memo, warned)
             ELSE get_component_name_cached(Tail(names),
                      memo \cup {service_name},
                      [warned EXCEPT ![service_name] = @ + 1])

LogStart ==
    /\ component_memo = {}
    /\ warnings = [n \in Services |-> 0]

\* the process after _get_component_name was called with these names
Logged(names) ==
    LET after == get_component_name_cached(names, component_memo, warnings)
    IN  /\ component_memo' = after.component_memo
        /\ warnings' = after.warnings

\* ---- lines 432-438: entries_by_date[date][entry["name"]] = entry

RECURSIVE IndexEntries(_, _)
IndexEntries(processed, entries_by_date) ==
    IF processed = <<>>
    THEN [raised |-> FALSE, entries_by_date |-> entries_by_date]
    ELSE LET entry == Head(processed)
             forDate == DictGet(entries_by_date, entry.date, <<>>)
         IN  IF entry.field # "name"
             THEN [raised |-> TRUE, entries_by_date |-> entries_by_date]
             ELSE IndexEntries(Tail(processed),
                     DictSet(entries_by_date, entry.date,
                             DictSet(forDate, entry.label, entry)))

\* ---- lines 440-485: the reallocation

RECURSIVE HomeStorageCost(_)
HomeStorageCost(groups) ==
    IF groups = <<>> THEN 0
    ELSE (IF Head(groups).Key = EC2_OTHER THEN Head(groups).Amount ELSE 0)
            + HomeStorageCost(Tail(groups))

Max0(x) == IF x > 0 THEN x ELSE 0

AdjustDate(entries_by_date, date, home_storage_cost) ==
    LET date_entries == DictGet(entries_by_date, date, <<>>)
        withCompute ==
            IF DictHas(date_entries, "compute")
            THEN LET ce == DictGet(date_entries, "compute", <<>>)
                 IN  DictSet(date_entries, "compute",
                        [ce EXCEPT !.cost =
                            Fmt2(Max0(ParseCost(ce.cost) - home_storage_cost))])
            ELSE date_entries
    IN  IF DictHas(date_entries, "home storage")
        THEN LET he == DictGet(date_entries, "home storage", <<>>)
                 moved == DictSet(withCompute, "home storage",
                            [he EXCEPT !.cost =
                                Fmt2(ParseCost(he.cost) + home_storage_cost)])
             IN  IF DictHas(entries_by_date, date)
                 THEN DictSet(entries_by_date, date, moved)
                 ELSE entries_by_date
        ELSE LET new_entry == [date |-> date, cost |-> Fmt2(home_storage_cost),
                               field |-> "name", label |-> "home storage"]
                 base == IF DictHas(entries_by_date, date) THEN withCompute
                         ELSE <<>>
             IN  DictSet(entries_by_date, date,
                         DictSet(base, "home storage", new_entry))

RECURSIVE Reallocate(_, _)
Reallocate(home_results, entries_by_date) ==
    IF home_results = <<>> THEN entries_by_date
    ELSE LET home_e == Head(home_results)
             home_storage_cost == HomeStorageCost(home_e.Groups)
         IN  Reallocate(Tail(home_results),
                 IF home_storage_cost > 0
                 THEN AdjustDate(entries_by_date, home_e.Start, home_storage_cost)
                 ELSE entries_by_date)

\* ---- lines 487-493: the index flattened in date order

RECURSIVE FinalResponse(_, _)
FinalResponse(entries_by_date, dates) ==
    IF dates = {} THEN <<>>
    ELSE LET date == CHOOSE d \in dates : \A o \in dates : d <= o
             inner == DictGet(entries_by_date, date, <<>>)
         IN  [i \in 1..Len(inner) |-> inner[i].v]
                \o FinalResponse(entries_by_date, dates \ {date})

Raise(name, calls, processed) ==
    [outcome |-> name, result |-> <<>>, processed_response |-> processed,
     ce_calls |-> calls]

query_total_costs_per_component(responses, hub_name, component) ==
    LET first == query_aws_cost_explorer(responses[1])
        second == query_aws_cost_explorer(responses[2])
        processed == CoalesceDates(first.response.ResultsByTime, component, <<>>)
        indexed == IndexEntries(processed, <<>>)
        moved == Reallocate(second.response.ResultsByTime, indexed.entries_by_date)
    IN  IF first.raised THEN Raise(first.exception, 1, <<>>)
        ELSE IF second.raised THEN Raise(second.exception, 2, <<>>)
        ELSE IF indexed.raised THEN Raise("KeyError", 2, processed)
        ELSE [outcome |-> "ok",
              result |-> FinalResponse(moved, {moved[i].k : i \in 1..Len(moved)}),
              processed_response |-> processed, ce_calls |-> 2]

\* the names the call hands to _get_component_name: none when a billing
\* query raised
ComponentLookups(responses, component) ==
    IF query_aws_cost_explorer(responses[1]).raised
            \/ query_aws_cost_explorer(responses[2]).raised
    THEN <<>>
    ELSE LookupsInDates(responses[1].ResultsByTime, component)

ComponentArgs == {None, "home storage"}

CostStart ==
    /\ op = "idle"
    /\ request = <<>>
    /\ upstream = <<>>
    /\ outcome = "none"
    /\ result = <<>>
    /\ processed_response = <<>>
    /\ ce_calls = 0
    /\ home_storage_costs = <<>>

\* no metrics query belongs to the call
Unmetered ==
    /\ metrics' = <<>>
    /\ prom_calls' = 0
    /\ absolute_usage' = <<>>
    /\ cost_factors' = <<>>

Finish(name, args, responses, r) ==
    /\ op' = name
    /\ request' = args
    /\ upstream' = responses
    /\ outcome' = r.outcome
    /\ result' = r.result
    /\ processed_response' = r.processed_response
    /\ ce_calls' = r.ce_calls
    /\ home_storage_costs' = <<>>
    /\ Unmetered
    /\ UNCHANGED <<dateVars, storeVars, histVars, callerVars>>

TotalCostsPerComponent ==
    /\ op = "idle"
    /\ \E n \in 1..MaxDates :
          \E d \in DayLists(n, MaxLines), h \in [1..n -> HomeGroupLists],
             t \in Answers \X Answers, component \in ComponentArgs :
              LET responses == <<Answer(t[1], ResultsByTime(d)),
                                 Answer(t[2], ResultsByTime(h))>>
              IN  /\ t = <<"complete", "complete">> \/ n = 1
                  /\ \E r \in {query_total_costs_per_component(responses, None,
                                                                component)} :
                        Finish("query_total_costs_per_component",
                               [hub_name |-> None, component |-> component],
                               responses, r)
                  /\ Logged(ComponentLookups(responses, component))

\* ---- query_hub_names

TagValues == {"", "prod", "staging"}

RECURSIVE TagLists(_)
\* at most n distinct tag values, in any order
TagLists(n) ==
    IF n = 0 THEN {<<>>}
    ELSE LET prev == TagLists(n - 1)
         IN  prev \cup UNION {
                 {Append(l, x) : x \in TagValues \ {l[i] : i \in 1..Len(l)}} :
                     l \in prev}

OrSharedNot(t) == t

\* t or "shared"
OrShared(t) == IF t = "" THEN "shared" ELSE t

\* one get_tags call, its response used as it comes
query_hub_names(response) ==
    [outcome |-> "ok",
     result |-> [i \in 1..Len(response.Tags) |-> OrShared(response.Tags[i])],
     processed_response |-> <<>>, ce_calls |-> 1]

HubNames ==
    /\ op = "idle"
    /\ \E tags \in TagLists(MaxTags), token \in BOOLEAN :
          LET response == [NextPageToken |-> token, Tags |-> tags]
          IN  Finish("query_hub_names", <<>>, <<response>>,
                     query_hub_names(response))
    /\ UNCHANGED logVars

\* ---- query_total_costs

\* the Total of a day without grouping, in mills
TotalAmounts == {23311, 12193}

TotalResults(amounts) ==
    [i \in 1..Len(amounts) |-> [Start |-> i, Total |-> amounts[i], Groups |-> <<>>]]

RECURSIVE SortedByDate(_, _)
\* sorted(entries, key=date): stable
SortedByDate(entries, dates) ==
    IF dates = {} THEN <<>>
    ELSE LET date == CHOOSE d \in dates : \A o \in dates : d <= o
             Of(e) == e.date = date
         IN  SelectSeq(entries, Of) \o SortedByDate(entries, dates \ {date})

\* _query_total_costs: the entries of one ungrouped response
TotalEntries(response, name) ==
    [i \in 1..Len(response.ResultsByTime) |->
        [date |-> response.ResultsByTime[i].Start,
         cost |-> Fmt2(response.ResultsByTime[i].Total),
         field |-> "name", label |-> name]]

query_total_costs(responses) ==
    LET account == query_aws_cost_explorer(responses[1])
        attributable == query_aws_cost_explorer(responses[2])
        merged == TotalEntries(account.response, "account")
                    \o TotalEntries(attributable.response, "attributable")
    IN  IF account.raised THEN Raise(account.exception, 1, <<>>)
        ELSE IF attributable.raised THEN Raise(attributable.exception, 2, <<>>)
        ELSE [outcome |-> "ok",
              result |-> SortedByDate(merged, {merged[i].date : i \in 1..Len(merged)}),
              processed_response |-> <<>>, ce_calls |-> 2]

TotalCosts ==
    /\ op = "idle"
    /\ \E n \in 1..MaxDates :
          \E a \in [1..n -> TotalAmounts], b \in [1..n -> TotalAmounts],
             t \in Answers \X Answers :
              LET responses == <<Answer(t[1], TotalResults(a)),
                                 Answer(t[2], TotalResults(b))>>
              IN  Finish("query_total_costs", <<>>, responses,
                         query_total_costs(responses))
    /\ UNCHANGED logVars

\* ---- query_total_costs_per_hub

\* UnblendedCost of one hub group of a day, in mills
HubBilled == ("" :> 12193) @@ ("prod" :> 18663) @@ ("staging" :> 1)

\* a group key "2i2c:hub-name$<value>", held as the text before and after
\* its first "$"
HubGroups(tags) ==
    [i \in 1..Len(tags) |->
        [Key |-> [tag |-> "2i2c:hub-name", value |-> tags[i]],
         Amount |-> HubBilled[tags[i]]]]

\* g["Keys"][0].split("$", maxsplit=1)[1]
AfterDollar(key) == key.value

RECURSIVE HubEntries(_)
HubEntries(results) ==
    IF results = <<>> THEN <<>>
    ELSE LET e == Head(results)
         IN  [i \in 1..Len(e.Groups) |->
                 [date |-> e.Start, cost |-> Fmt2(e.Groups[i].Amount),
                  field |-> "name",
                  label |-> OrShared(AfterDollar(e.Groups[i].Key))]]
                \o HubEntries(Tail(results))

query_total_costs_per_hub(response) ==
    LET r == query_aws_cost_explorer(response)
    IN  IF r.raised THEN Raise(r.exception, 1, <<>>)
        ELSE [outcome |-> "ok", result |-> HubEntries(r.response.ResultsByTime),
              processed_response |-> <<>>, ce_calls |-> 1]

TotalCostsPerHub ==
    /\ op = "idle"
    /\ \E n \in 1..MaxDates :
          \E g \in [1..n -> TagLists(MaxTags)], t \in Answers :
              LET response ==
                      Answer(t, [i \in 1..n |->
                                  [Start |-> i, Groups |-> HubGroups(g[i])]])
              IN  Finish("query_total_costs_per_hub", <<>>, <<response>>,
                         query_total_costs_per_hub(response))
    /\ UNCHANGED logVars

\* the response is handed to the caller; the next request may come
NextRequest ==
    /\ op # "idle"
    /\ op' = "idle"
    /\ request' = <<>>
    /\ upstream' = <<>>
    /\ outcome' = "none"
    /\ result' = <<>>
    /\ processed_response' = <<>>
    /\ ce_calls' = 0
    /\ home_storage_costs' = <<>>
    /\ Unmetered
    /\ UNCHANGED <<dateVars, storeVars, histVars, callerVars, logVars>>

----------------------------------------------------------------------------
(* query_usage.py: usage cost factors from the metrics store *)

\* const_usage.USAGE_MAP: the tracked components, in the order of its items
USAGE_MAP == <<"compute", "home storage">>

\* the (namespace, username) label sets of the store, in the order it lists
\* their series
LabelSets ==
    << [namespace |-> "staging", username |-> "alice"],
       [namespace |-> "prod", username |-> "bob"],
       [namespace |-> "prod", username |-> "alice"] >>

\* the evaluation timestamps of a range query, in steps
Stamps == <<0, 1, 2>>

\* steps in one UTC day
StepsPerDay == 2

\* the value of one sample
Usages == {0, 1}

\* datetime.fromtimestamp(ts, tz=timezone.utc).strftime("%Y-%m-%d")
utc_date(ts) == ts \div StepsPerDay

\* str < str on the names that occur
Alphabet ==
    <<"alice", "bob", "compute", "home storage", "prod", "staging">>

StrRank(x) == CHOOSE i \in 1..Len(Alphabet) : Alphabet[i] = x

\* ---- what the metrics store may answer

\* a sample is known by (component, label set, timestamp); the store holds
\* samples of every label set for the first component and of the first label
\* set for the others
SampleKeys ==
    {k \in (1..Len(USAGE_MAP)) \X (1..Len(LabelSets)) \X (1..Len(Stamps)) :
        k[1] = 1 \/ k[2] = 1}

RECURSIVE SampleSets(_)
\* the sets of at most n samples
SampleSets(n) ==
    IF n = 0 THEN {{}}
    ELSE LET prev == SampleSets(n - 1)
         IN  prev \cup {X \cup {k} : X \in prev, k \in SampleKeys}

\* the values of one series: its samples in time order
SeriesValues(c, l, v) ==
    LET Has(ts) == <<c, l, ts>> \in DOMAIN v
        at == SelectSeq([i \in 1..Len(Stamps) |-> i], Has)
    IN  [i \in 1..Len(at) |-> <<Stamps[at[i]], v[<<c, l, at[i]>>]>>]

\* data.result of the query of component c: one entry per label set with a
\* sample; the first entry lacks the labels in missing
PromResult(c, v, missing) ==
    LET HasSamples(l) == SeriesValues(c, l, v) # <<>>
        at == SelectSeq([i \in 1..Len(LabelSets) |-> i], HasSamples)
    IN  [i \in 1..Len(at) |->
            [metric |-> [k \in {"namespace", "username"}
                                \ (IF i = 1 THEN missing ELSE {}) |->
                            LabelSets[at[i]][k]],
             values |-> SeriesValues(c, at[i], v)]]

PayloadKinds ==
    {"success", "http_error", "error_status", "no_result", "no_username",
     "no_namespace"}

\* the HTTP answer to one range query: raise_for_status raises on an error
\* status code; the body of an error lacks "data"
Payload(kind, c, v) ==
    [raises |-> kind = "http_error",
     status |-> IF kind \in {"http_error", "error_status"} THEN "error"
                ELSE "success",
     has_data |-> kind \notin {"http_error", "error_status"},
     has_result |-> kind \notin {"http_error", "error_status", "no_result"},
     result |-> IF kind \in {"http_error", "error_status", "no_result"}
                THEN <<>>
                ELSE PromResult(c, v,
                        IF kind = "no_username" THEN {"username"}
                        ELSE IF kind = "no_namespace" THEN {"namespace"}
                        ELSE {})]

\* ---- query_prometheus

query_prometheus_unraised(payload) == [raised |-> FALSE, response |-> payload]

query_prometheus(payload) == [raised |-> payload.raises, response |-> payload]

\* ---- _pivot_response_dict

RECURSIVE pivot_response_dict(_)
pivot_response_dict(entries) ==
    IF entries = <<>> THEN <<>>
    ELSE LET entry == Head(entries)
         IN  [i \in 1..Len(entry.date) |->
                 [date |-> entry.date[i], user |-> entry.user,
                  hub |-> entry.hub, component |-> entry.component,
                  value |-> entry.value[i]]]
                \o pivot_response_dict(Tail(entries))

\* ---- _sum_absolute_usage_by_date

RECURSIVE SumByKey(_, _)
SumByKey(records, sums) ==
    IF records = <<>> THEN sums
    ELSE LET entry == Head(records)
             key == <<entry.date, entry.user, entry.hub, entry.component>>
         IN  SumByKey(Tail(records),
                      DictSet(sums, key, DictGet(sums, key, 0) + entry.value))

usage_by_date_unsummed(records) == records

sum_absolute_usage_by_date(records) ==
    LET sums == SumByKey(records, <<>>)
    IN  [i \in 1..Len(sums) |->
            [date |-> sums[i].k[1], user |-> sums[i].k[2], hub |-> sums[i].k[3],
             component |-> sums[i].k[4], value |-> sums[i].v]]

\* ---- _process_response

process_response(response, component_name) ==
    LET series == response.result
        entries ==
            [i \in 1..Len(series) |->
                [hub |-> series[i].metric["namespace"],
                 component |-> component_name,
                 user |-> series[i].metric["username"],
                 date |-> [j \in 1..Len(series[i].values) |->
                              utc_date(series[i].values[j][1])],
                 value |-> [j \in 1..Len(series[i].values) |->
                               series[i].values[j][2]]]]
    IN  IF ~response.has_data \/ ~response.has_result
            \/ \E i \in 1..Len(series) :
                  {"namespace", "username"} \ DOMAIN series[i].metric # {}
        THEN [raised |-> TRUE, records |-> <<>>]
        ELSE [raised |-> FALSE,
              records |-> sum_absolute_usage_by_date(pivot_response_dict(entries))]

\* ---- _calculate_daily_cost_factors

\* a quotient of two usage totals, kept exact
Ratio(n, d) == [num |-> n, den |-> d]

\* 0.0
ZeroFactor == Ratio(0, 1)

GroupKeyAcrossHubs(entry, hub_name) == <<entry.date, entry.component>>

\* the key of the grouping an entry is normalized in
GroupKey(entry, hub_name) ==
    IF hub_name = None
    THEN <<entry.date, entry.component>>
    ELSE <<entry.date, entry.hub, entry.component>>

RECURSIVE Totals(_, _, _)
Totals(records, hub_name, totals) ==
    IF records = <<>> THEN totals
    ELSE LET entry == Head(records)
             key == GroupKey(entry, hub_name)
         IN  Totals(Tail(records), hub_name,
                    DictSet(totals, key, DictGet(totals, key, 0) + entry.value))

absolute_as_factor(records, hub_name) ==
    [i \in 1..Len(records) |->
        [records[i] EXCEPT !.value = Ratio(records[i].value, 1)]]

calculate_daily_cost_factors(records, hub_name) ==
    LET totals == Totals(records, hub_name, <<>>)
    IN  [i \in 1..Len(records) |->
            LET total == DictGet(totals, GroupKey(records[i], hub_name), 0)
            IN  [records[i] EXCEPT !.value =
                    IF total > 0 THEN Ratio(records[i].value, total)
                    ELSE ZeroFactor]]

\* ---- result.sort(key=(date, component, hub, user))

KeyLess(a, b) ==
    \/ a.date < b.date
    \/ /\ a.date = b.date
       /\ \/ StrRank(a.component) < StrRank(b.component)
          \/ /\ a.component = b.component
             /\ \/ StrRank(a.hub) < StrRank(b.hub)
                \/ /\ a.hub = b.hub
                   /\ StrRank(a.user) < StrRank(b.user)

\* e goes in front of the first entry that sorts after it
InsertSorted(sorted, e) ==
    LET later == {i \in 1..Len(sorted) : KeyLess(e, sorted[i])}
        at == IF later = {} THEN Len(sorted) + 1
              ELSE CHOOSE i \in later : \A j \in later : i <= j
    IN  SubSeq(sorted, 1, at - 1) \o <<e>> \o SubSeq(sorted, at, Len(sorted))

RECURSIVE SortUsage(_, _)
SortUsage(records, sorted) ==
    IF records = <<>> THEN sorted
    ELSE SortUsage(Tail(records), InsertSorted(sorted, Head(records)))

\* ---- _filter_json

filter_json_hub_only(records, hub, user) ==
    LET Keep(item) == hub = None \/ item.hub = hub
    IN  SelectSeq(records, Keep)

filter_json(records, hub, user) ==
    LET Keep(item) ==
            /\ hub = None \/ item.hub = hub
            /\ user = None \/ item.user = user
    IN  SelectSeq(records, Keep)

\* ---- query_usage

RECURSIVE QueryEach(_, _, _, _)
\* one query_prometheus call per component, in order; the first exception
\* ends the loop
QueryEach(components, payloads, records, calls) ==
    IF components = <<>>
    THEN [outcome |-> "ok", records |-> records, calls |-> calls]
    ELSE LET component == Head(components)
             q == query_prometheus(payloads[component])
             p == process_response(q.response, component)
         IN  IF q.raised
             THEN [outcome |-> "HTTPError", records |-> records,
                   calls |-> calls + 1]
             ELSE IF p.raised
             THEN [outcome |-> "KeyError", records |-> records,
                   calls |-> calls + 1]
             ELSE QueryEach(Tail(components), payloads,
                            records \o p.records, calls + 1)

\* the components a call queries
Queried(component_name) ==
    IF component_name = None THEN USAGE_MAP ELSE <<component_name>>

query_usage(payloads, hub_name, component_name, user_name) ==
    LET got == QueryEach(Queried(component_name), payloads, <<>>, 0)
        factors == calculate_daily_cost_factors(got.records, hub_name)
        sorted == SortUsage(factors, <<>>)
    IN  IF got.outcome # "ok"
        THEN [outcome |-> got.outcome, result |-> <<>>,
              absolute_usage |-> got.records, cost_factors |-> <<>>,
              prom_calls |-> got.calls]
        ELSE [outcome |-> "ok",
              result |-> filter_json(sorted, hub_name, user_name),
              absolute_usage |-> got.records, cost_factors |-> factors,
              prom_calls |-> got.calls]

HubArgs == {None, "prod"}
UserArgs == {None, "alice"}
UsageComponentArgs == {None, "compute"}

ComponentIndex(component) ==
    CHOOSE c \in 1..Len(USAGE_MAP) : USAGE_MAP[c] = component

QueryUsage ==
    /\ op = "idle"
    /\ \E S \in SampleSets(MaxSamples),
          kinds \in [1..Len(USAGE_MAP) -> PayloadKinds],
          component_name \in UsageComponentArgs :
          /\ \/ \A c \in 1..Len(USAGE_MAP) : kinds[c] = "success"
             \/ Cardinality(S) <= MaxFaultySamples
          \* the store is asked for the queried components only
          /\ \A k \in S : \E i \in 1..Len(Queried(component_name)) :
                Queried(component_name)[i] = USAGE_MAP[k[1]]
          /\ \E v \in [S -> Usages], hub_name \in HubArgs, user_name \in UserArgs :
                LET queried == Queried(component_name)
                    payloads ==
                        [component \in {queried[i] : i \in 1..Len(queried)} |->
                            Payload(kinds[ComponentIndex(component)],
                                    ComponentIndex(component), v)]
                IN  \E r \in {query_usage(payloads, hub_name, component_name,
                                           user_name)} :
                    /\ op' = "query_usage"
                    /\ request' = [hub_name |-> hub_name,
                                   component_name |-> component_name,
                                   user_name |-> user_name]
                    /\ metrics' = payloads
                    /\ outcome' = r.outcome
                    /\ result' = r.result
                    /\ absolute_usage' = r.absolute_usage
                    /\ cost_factors' = r.cost_factors
                    /\ prom_calls' = r.prom_calls
    /\ upstream' = <<>>
    /\ processed_response' = <<>>
    /\ ce_calls' = 0
    /\ home_storage_costs' = <<>>
    /\ UNCHANGED <<dateVars, storeVars, histVars, callerVars, logVars>>

----------------------------------------------------------------------------
(* prometheus_client.py and query_total_storage_costs_per_user *)

\* the directories (user names) the store reports disk usage for
Directories == <<"alice", "bob">>

\* a user's share of the disk usage of a day, in quarters
Shares == {1, 3}

\* the evaluation timestamps of a range query with step "1d"
ShareStamps == [d \in 1..(MaxDates + 1) |-> d * StepsPerDay]

ShareKeys ==
    {<<l, ts>> : l \in 1..Len(Directories), ts \in 1..Len(ShareStamps)}

RECURSIVE ShareSets(_)
\* the sets of at most n share samples
ShareSets(n) ==
    IF n = 0 THEN {{}}
    ELSE LET prev == ShareSets(n - 1)
         IN  prev \cup {X \cup {k} : X \in prev, k \in ShareKeys}

ShareValues(l, v) ==
    LET Has(ts) == <<l, ts>> \in DOMAIN v
        at == SelectSeq([i \in 1..Len(ShareStamps) |-> i], Has)
    IN  [i \in 1..Len(at) |-> <<ShareStamps[at[i]], v[<<l, at[i]>>]>>]

\* data.result of the share query: one entry per directory with a sample;
\* the first entry lacks the labels in missing
ShareResult(v, missing) ==
    LET HasSamples(l) == ShareValues(l, v) # <<>>
        at == SelectSeq([i \in 1..Len(Directories) |-> i], HasSamples)
    IN  [i \in 1..Len(at) |->
            [metric |-> [k \in {"directory"} \ (IF i = 1 THEN missing ELSE {}) |->
                            Directories[at[i]]],
             values |-> ShareValues(at[i], v)]]

ShareKinds ==
    {"success", "http_error", "error_status", "no_result", "no_directory"}

SharePayload(kind, v) ==
    [raises |-> kind = "http_error",
     status |-> IF kind \in {"http_error", "error_status"} THEN "error"
                ELSE "success",
     has_data |-> kind \notin {"http_error", "error_status"},
     has_result |-> kind \notin {"http_error", "error_status", "no_result"},
     result |-> IF kind \in {"http_error", "error_status", "no_result"}
                THEN <<>>
                ELSE ShareResult(v, IF kind = "no_directory" THEN {"directory"}
                                    ELSE {})]

\* ---- query_user_usage_share

\* item["metric"].get("directory", "")
DirectoryOf(metric) ==
    IF "directory" \in DOMAIN metric THEN metric["directory"] ELSE ""

RECURSIVE ShareValuesInto(_, _, _)
\* result[date][directory] = float(value), sample after sample
ShareValuesInto(values, directory, shares) ==
    IF values = <<>> THEN shares
    ELSE LET date == utc_date(Head(values)[1])
         IN  ShareValuesInto(Tail(values), directory,
                 DictSet(shares, date,
                         DictSet(DictGet(shares, date, <<>>), directory,
                                 Head(values)[2])))

RECURSIVE SharesInto(_, _)
SharesInto(items, shares) ==
    IF items = <<>> THEN shares
    ELSE SharesInto(Tail(items),
                    ShareValuesInto(Head(items).values,
                                    DirectoryOf(Head(items).metric), shares))

RECURSIVE ByShareDescending(_, _)
\* sorted(items, key=share, reverse=True): stable
ByShareDescending(items, sorted) ==
    IF items = <<>> THEN sorted
    ELSE LET e == Head(items)
             smaller == {i \in 1..Len(sorted) : sorted[i].v < e.v}
             at == IF smaller = {} THEN Len(sorted) + 1
                   ELSE CHOOSE i \in smaller : \A j \in smaller : i <= j
         IN  ByShareDescending(Tail(items),
                 SubSeq(sorted, 1, at - 1) \o <<e>>
                    \o SubSeq(sorted, at, Len(sorted)))

query_user_usage_share(payload) ==
    LET filled == IF payload.status = "success" /\ payload.has_data
                        /\ payload.has_result /\ payload.result # <<>>
                  THEN SharesInto(payload.result, <<>>)
                  ELSE <<>>
    IN  IF payload.raises THEN [raised |-> TRUE, result |-> <<>>]
        ELSE [raised |-> FALSE,
              result |-> [i \in 1..Len(filled) |->
                            [k |-> filled[i].k,
                             v |-> ByShareDescending(filled[i].v, <<>>)]]]

\* ---- query_total_storage_costs_per_user

RECURSIVE StorageCostsByDate(_, _)
\* lines 513-515: the home storage cost of each date, read by entry["name"]
StorageCostsByDate(entries, costs) ==
    IF entries = <<>> THEN [raised |-> FALSE, costs |-> costs]
    ELSE LET entry == Head(entries)
         IN  IF entry.field # "name" THEN [raised |-> TRUE, costs |-> costs]
             ELSE StorageCostsByDate(Tail(entries),
                      IF entry.label = "home storage"
                      THEN DictSet(costs, entry.date, ParseCost(entry.cost))
                      ELSE costs)

\* round(total_storage_cost * usage_share, 4): mills times quarters, to the
\* nearest 1/10000 USD
Round4(millQuarters) == (millQuarters * 10 + 2) \div 4

UserCosts(users, total_storage_cost) ==
    [i \in 1..Len(users) |->
        [k |-> users[i].k, v |-> Round4(total_storage_cost * users[i].v)]]

query_total_storage_costs_per_user(responses, payload, hub) ==
    LET costs == query_total_costs_per_component(responses, hub, None)
        byDate == StorageCostsByDate(costs.result, <<>>)
        shares == query_user_usage_share(payload)
        Failed(name, calls) ==
            [outcome |-> name, result |-> <<>>,
             processed_response |-> costs.processed_response,
             ce_calls |-> costs.ce_calls, home_storage_costs |-> costs.result,
             prom_calls |-> calls]
    IN  IF costs.outcome # "ok" THEN Failed(costs.outcome, 0)
        ELSE IF byDate.raised THEN Failed("KeyError", 0)
        ELSE IF shares.raised THEN Failed("HTTPError", 1)
        ELSE [outcome |-> "ok",
              result |-> [i \in 1..Len(shares.result) |->
                            [k |-> shares.result[i].k,
                             v |-> UserCosts(shares.result[i].v,
                                       DictGet(byDate.costs,
                                               shares.result[i].k, 0))]],
              processed_response |-> costs.processed_response,
              ce_calls |-> costs.ce_calls, home_storage_costs |-> costs.result,
              prom_calls |-> 1]

\* the primary responses a per-user call is run on: any lines on one day, or
\* days without lines
StorageDayLists(n) ==
    IF n = 1 THEN DayLists(1, MaxLines) ELSE {[i \in 1..n |-> <<>>]}

TotalStorageCostsPerUser ==
    /\ op = "idle"
    /\ \E n \in 1..MaxDates :
          \E d \in StorageDayLists(n), h \in [1..n -> HomeGroupLists],
             t \in Answers \X Answers :
              LET responses == <<Answer(t[1], ResultsByTime(d)),
                                 Answer(t[2], ResultsByTime(h))>>
                  \* the share query is reached when both answers are
                  \* complete and the primary one holds no line
                  reached == /\ t = <<"complete", "complete">>
                             /\ \A i \in 1..n : d[i] = <<>>
              IN  /\ t = <<"complete", "complete">> \/ n = 1
                  /\ \E kind \in ShareKinds,
                        S \in ShareSets(IF reached THEN MaxShares ELSE 0) :
                        /\ kind = "success" \/ Cardinality(S) <= MaxFaultySamples
                        /\ reached \/ kind = "success"
                        /\ \E v \in [S -> Shares] :
                            \E r \in {query_total_storage_costs_per_user(
                                        responses, SharePayload(kind, v), None)} :
                              /\ op' = "query_total_storage_costs_per_user"
                              /\ request' = [hub |-> None]
                              /\ upstream' = responses
                              /\ metrics' = [share |-> SharePayload(kind, v)]
                              /\ outcome' = r.outcome
                              /\ result' = r.result
                              /\ processed_response' = r.processed_response
                              /\ ce_calls' = r.ce_calls
                              /\ home_storage_costs' = r.home_storage_costs
                              /\ prom_calls' = r.prom_calls
                  /\ Logged(ComponentLookups(responses, None))
    /\ absolute_usage' = <<>>
    /\ cost_factors' = <<>>
    /\ UNCHANGED <<dateVars, storeVars, histVars, callerVars>>

----------------------------------------------------------------------------
(* C1 *)

\* C1: whenever the parser returns a billing range (start, end), end > start
\* and end <= now; a from later than to never yields a range.
C1_RangeOrdered ==
    parsed.outcome = "ok" =>
        /\ parsed.to_date > parsed.from_date
        /\ parsed.to_date <= now_date

\* the parser has returned a range for a from later than to, both before now
C1_Reached ==
    /\ parsed.outcome = "ok"
    /\ Parsable(args_from) /\ Parsable(args_to)
    /\ args_from.day > args_to.day
    /\ args_from.day < now_date

----------------------------------------------------------------------------
(* C2, C3, C4 *)

\* C2 as stated: a call whose arguments equal those of an earlier call made
\* less than the lifetime ago returns the earlier result and runs nothing.
C2_WithinWindowNeverRuns ==
    (last.key # 0 /\ last.prevAt >= 0 /\ last.at - last.prevAt < Lifetime) =>
        /\ last.hit
        /\ last.ran = 0
        /\ last.value = last.prevValue

\* C2, amended: a call returns the stored result without running the
\* operation exactly when its key was last computed less than the lifetime
\* ago and has not been evicted since; any other call runs the operation once
\* and stores the new result stamped with the time of the call.
C2_HitIffStoredAndFresh ==
    last.key # 0 =>
        /\ last.hit <=> /\ last.prevComputed >= 0
                        /\ last.at - last.prevComputed < Lifetime
                        /\ ~last.prevGone
        /\ last.hit => last.ran = 0 /\ last.value = last.prevValue
        /\ ~last.hit =>
              /\ last.ran = 1
              /\ last.value = Upstream(last.key, invocations)
              /\ Find(cache, last.key) # 0
              /\ cache[Find(cache, last.key)] =
                    [key |-> last.key, value |-> last.value, stamp |-> last.at]

\* a key was computed, hit again inside the window, and is recomputed by the
\* first call after its lifetime has passed
C2_Reached ==
    /\ last.key # 0 /\ ~last.hit /\ ~last.prevGone
    /\ last.prevComputed >= 0
    /\ last.prevAt > last.prevComputed
    /\ last.at - last.prevComputed >= Lifetime

\* C3: the store never holds more than Capacity entries, and a new key put
\* into a full store removes exactly the entry whose last access (hit or
\* insert) is the oldest.
C3_BoundedLru ==
    /\ Len(cache) <= Capacity
    /\ (last.key # 0 /\ last.key \notin last.before /\ last.full) =>
          \E v \in last.before :
              /\ \A u \in last.before : last.useBefore[v] <= last.useBefore[u]
              /\ KeysOf(cache) = (last.before \ {v}) \cup {last.key}

\* a new key went into a full store and the entry kept is one that was
\* computed no later than the evicted one but hit since
C3_Reached ==
    /\ last.key # 0 /\ last.key \notin last.before /\ last.full
    /\ \E v \in last.before \ KeysOf(cache), u \in last.before \cap KeysOf(cache) :
          /\ recent[u].computed <= recent[v].computed
          /\ last.useBefore[u] > last.useBefore[v]
          /\ recent[u].at > recent[u].computed

\* C4: under every interleaving each caller is handed a value the operation
\* produced for that caller's own arguments, and the store keeps at most one
\* entry per key, each entry holding a value of its own key.
C4_ConcurrentSafe ==
    /\ \A t \in Callers : pc[t] = "done" => tval[t][1] = targ[t]
    /\ \A i, j \in 1..Len(cache) : cache[i].key = cache[j].key => i = j
    /\ \A i \in 1..Len(cache) : cache[i].value[1] = cache[i].key
    /\ Len(cache) <= Capacity

\* two overlapping callers of one key have each run the operation and each
\* returned its own result, and the store holds one entry for the key
C4_Reached ==
    \E t, u \in Callers :
        /\ t # u
        /\ pc[t] = "done" /\ pc[u] = "done"
        /\ targ[t] = targ[u]
        /\ tval[t] # tval[u]
        /\ clock = 0
        /\ Find(cache, targ[t]) # 0

----------------------------------------------------------------------------
(* C5 - C10 *)

PerComponent == op = "query_total_costs_per_component"

Paginated == \E i \in 1..Len(upstream) : upstream[i].NextPageToken

\* the call of query_total_costs_per_component got two complete responses
PerComponentComplete == PerComponent /\ ~Paginated

RECURSIVE SumMapped(_, _)
\* the billed amounts of the lines of one day whose service maps to c
SumMapped(groups, c) ==
    IF groups = <<>> THEN 0
    ELSE (IF get_component_name(Head(groups).Key) = c
          THEN Head(groups).Amount ELSE 0) + SumMapped(Tail(groups), c)

MapsTo(groups, c) ==
    \E i \in 1..Len(groups) : get_component_name(groups[i].Key) = c

\* positions of the records of (date, label) in a list of records
RecordsOf(records, date, label) ==
    {i \in 1..Len(records) : records[i].date = date /\ records[i].label = label}

\* the list holds, for (date, c), one record of cost Fmt2(mills) when some
\* line maps to c and no record otherwise
HoldsSum(records, date, c, groups) ==
    IF MapsTo(groups, c)
    THEN /\ Cardinality(RecordsOf(records, date, c)) = 1
         /\ \A i \in RecordsOf(records, date, c) :
               records[i].cost = Fmt2(SumMapped(groups, c))
    ELSE RecordsOf(records, date, c) = {}

\* C5: a next-page token on the primary or on the home-storage subset
\* response makes query_total_costs_per_component fail and return no record.
C5_PaginatedFails ==
    (PerComponent /\ Paginated) =>
        /\ outcome # "ok" /\ result = <<>>
        /\ ~upstream[1].Fails => outcome = "ValueError"

\* the subset response alone was truncated, the primary one held lines, and
\* the call failed
C5_Reached ==
    /\ PerComponent
    /\ ~upstream[1].NextPageToken /\ upstream[2].NextPageToken
    /\ \E i \in 1..Len(upstream[1].ResultsByTime) :
          upstream[1].ResultsByTime[i].Groups # <<>>
    /\ outcome = "ValueError" /\ result = <<>>

\* C6: every operation that calls the billing API fails when a response it
\* receives signals more pages.
C6_TruncatedAlwaysFails ==
    (op # "idle" /\ Paginated) => outcome # "ok"

\* C7: without a component argument the cost recorded by the mapping step for
\* (date, c) is the sum of the lines of that date whose service maps to c.
C7_MappedSums ==
    (PerComponentComplete /\ Falsy(request.component)) =>
        \A i \in 1..Len(upstream[1].ResultsByTime), c \in Components :
            HoldsSum(processed_response, upstream[1].ResultsByTime[i].Start, c,
                     upstream[1].ResultsByTime[i].Groups)

CostOf(records, date, label, default) ==
    IF RecordsOf(records, date, label) = {} THEN default
    ELSE records[CHOOSE i \in RecordsOf(records, date, label) : TRUE].cost

\* C8: for every date with a storage-tagged amount s > 0 the call returns
\* compute = max(0, compute_before - s) and home storage = before + s, a
\* missing home storage record counting as 0.
C8_Reallocated ==
    (PerComponentComplete /\ Falsy(request.component)) =>
        \A i \in 1..Len(upstream[2].ResultsByTime) :
            LET date == upstream[2].ResultsByTime[i].Start
                s == HomeStorageCost(upstream[2].ResultsByTime[i].Groups)
                computeBefore == CostOf(processed_response, date, "compute", -1)
                homeBefore == CostOf(processed_response, date, "home storage", 0)
            IN  s > 0 =>
                  /\ outcome = "ok"
                  /\ computeBefore >= 0 =>
                        CostOf(result, date, "compute", -1)
                            = Fmt2(Max0(ParseCost(computeBefore) - s))
                  /\ CostOf(result, date, "home storage", -1)
                        = Fmt2(ParseCost(homeBefore) + s)

\* C9: for complete responses the call returns normally one record per
\* (date, component), in date order, each with the fields date, cost and
\* component.
C9_OneRecordPerDateComponent ==
    PerComponentComplete =>
        /\ outcome = "ok"
        /\ \A i, j \in 1..Len(result) :
              /\ (result[i].date = result[j].date
                    /\ result[i].label = result[j].label) => i = j
              /\ i <= j => result[i].date <= result[j].date
        /\ \A i \in 1..Len(result) : result[i].field = "component"
        /\ \A i \in 1..Len(upstream[1].ResultsByTime), c \in Components :
              MapsTo(upstream[1].ResultsByTime[i].Groups, c) =>
                  RecordsOf(result, upstream[1].ResultsByTime[i].Start, c) # {}

\* C10: with a component argument c the records are those of c alone, the
\* cost of c on a date being the sum of the lines of that date that map to c.
C10_OnlyThatComponent ==
    (PerComponentComplete /\ ~Falsy(request.component)) =>
        /\ \A i \in 1..Len(processed_response) :
              processed_response[i].label = request.component
        /\ \A i \in 1..Len(upstream[1].ResultsByTime) :
              HoldsSum(processed_response, upstream[1].ResultsByTime[i].Start,
                       request.component, upstream[1].ResultsByTime[i].Groups)

----------------------------------------------------------------------------
(* C11 *)

\* the name a raw tag value goes by
HubNameOf(tag) == IF tag = "" THEN "shared" ELSE tag

\* C11: query_hub_names maps the raw tag values element by element, in order,
\* "" to "shared" and every other value to itself; query_total_costs_per_hub
\* returns one record per (date, group), the tag-absent group named "shared"
\* and every other group by its tag value.
C11_HubsNamed ==
    /\ (op = "query_hub_names" /\ outcome = "ok") =>
          /\ Len(result) = Len(upstream[1].Tags)
          /\ \A i \in 1..Len(result) : result[i] = HubNameOf(upstream[1].Tags[i])
    /\ (op = "query_total_costs_per_hub" /\ outcome = "ok") =>
          LET days == upstream[1].ResultsByTime
          IN  /\ \A d \in 1..Len(days) : \A j \in 1..Len(days[d].Groups) :
                    LET g == days[d].Groups[j]
                        at == RecordsOf(result, days[d].Start,
                                        HubNameOf(g.Key.value))
                    IN  /\ Cardinality(at) = 1
                        /\ \A k \in at : result[k].cost = Fmt2(g.Amount)
              /\ \A k \in 1..Len(result) :
                    \E d \in 1..Len(days) : \E j \in 1..Len(days[d].Groups) :
                        /\ result[k].date = days[d].Start
                        /\ result[k].label = HubNameOf(days[d].Groups[j].Key.value)

\* a day with the tag-absent group and the group of "prod" has been reported
C11_Reached ==
    /\ op = "query_total_costs_per_hub" /\ outcome = "ok"
    /\ \E d \in 1..Len(upstream[1].ResultsByTime) :
          {upstream[1].ResultsByTime[d].Groups[j].Key.value :
              j \in 1..Len(upstream[1].ResultsByTime[d].Groups)} = {"", "prod"}
    /\ \E k \in 1..Len(result) : result[k].label = "shared"
    /\ \E k \in 1..Len(result) : result[k].label = "prod"

----------------------------------------------------------------------------
(* C12 .. C15 *)

UsageDone == op = "query_usage" /\ outcome = "ok"

\* two records are in one group of the normalization: same (date, component),
\* and same hub as well when a hub filter is given
SameGroup(a, b, hub_name) ==
    /\ a.date = b.date /\ a.component = b.component
    /\ hub_name # None => a.hub = b.hub

SameCombination(a, b) ==
    a.date = b.date /\ a.component = b.component /\ a.hub = b.hub

RECURSIVE RatSum(_, _)
\* the sum of the factors at the positions idx, as one quotient
RatSum(records, idx) ==
    IF idx = {} THEN Ratio(0, 1)
    ELSE LET i == CHOOSE x \in idx : TRUE
             rest == RatSum(records, idx \ {i})
             f == records[i].value
         IN  Ratio(f.num * rest.den + rest.num * f.den, f.den * rest.den)

IsOne(q) == q.num = q.den

RECURSIVE IntSum(_, _)
IntSum(records, idx) ==
    IF idx = {} THEN 0
    ELSE LET i == CHOOSE x \in idx : TRUE
         IN  records[i].value + IntSum(records, idx \ {i})

\* the factors at idx sum to 1, or are all 0 when the usage behind them is 0
SumsToOneOrZero(factors, idx, usage) ==
    IF usage > 0 THEN IsOne(RatSum(factors, idx))
    ELSE \A i \in idx : factors[i].value.num = 0

\* C12: after normalization every group, keyed by (date, component) without
\* a hub filter and by (date, hub, component) with one, has values that sum
\* to 1 when its total usage is > 0 and that are all 0 when it is 0.
C12_GroupsNormalized ==
    UsageDone =>
        /\ Len(cost_factors) = Len(absolute_usage)
        /\ \A i \in 1..Len(cost_factors) :
              LET group == {j \in 1..Len(absolute_usage) :
                              SameGroup(absolute_usage[i], absolute_usage[j],
                                        request.hub_name)}
              IN  SumsToOneOrZero(cost_factors, group,
                                  IntSum(absolute_usage, group))

\* with a hub filter, a day held two users of one hub with usage and a user
\* of another hub
C12_Reached ==
    /\ UsageDone /\ request.hub_name # None
    /\ \E i, j, k \in 1..Len(absolute_usage) :
          /\ i # j
          /\ SameCombination(absolute_usage[i], absolute_usage[j])
          /\ absolute_usage[i].value > 0 /\ absolute_usage[j].value > 0
          /\ absolute_usage[k].date = absolute_usage[i].date
          /\ absolute_usage[k].component = absolute_usage[i].component
          /\ absolute_usage[k].hub # absolute_usage[i].hub
          /\ absolute_usage[k].value > 0
          /\ cost_factors[i].value.den = 2

\* the usage behind the returned records of one (date, hub, component)
UsageOf(rec) ==
    IntSum(absolute_usage,
           {j \in 1..Len(absolute_usage) :
               SameCombination(absolute_usage[j], rec)})

InUnitInterval(f) == 0 <= f.num /\ f.num <= f.den /\ f.den > 0

RECURSIVE SumSamples(_, _)
\* the values of the samples of a series that fall on a date
SumSamples(values, date) ==
    IF values = <<>> THEN 0
    ELSE (IF Head(values)[1] \div StepsPerDay = date THEN Head(values)[2] ELSE 0)
            + SumSamples(Tail(values), date)

SamplesOn(values, date) ==
    {j \in 1..Len(values) : values[j][1] \div StepsPerDay = date}

\* positions of the records of one (date, user, hub, component)
UsageRecordsOf(records, date, labels, component) ==
    {i \in 1..Len(records) :
        /\ records[i].date = date /\ records[i].component = component
        /\ records[i].hub = labels["namespace"]
        /\ records[i].user = labels["username"]}

\* C14: the reduced list holds one record per (date, user, hub, component)
\* with a sample, its value the sum of the samples of that key on that UTC
\* date, and no record for a key without a sample.
C14_PivotedAndSummed ==
    UsageDone =>
        /\ \A c \in DOMAIN metrics :
              \A s \in 1..Len(metrics[c].result) :
                  \A date \in 0..(Len(Stamps) \div StepsPerDay) :
                      LET series == metrics[c].result[s]
                          at == UsageRecordsOf(absolute_usage, date,
                                               series.metric, c)
                      IN  IF SamplesOn(series.values, date) = {} THEN at = {}
                          ELSE /\ Cardinality(at) = 1
                               /\ \A i \in at : absolute_usage[i].value
                                     = SumSamples(series.values, date)
        /\ \A i \in 1..Len(absolute_usage) :
              LET rec == absolute_usage[i]
              IN  /\ rec.component \in DOMAIN metrics
                  /\ \E s \in 1..Len(metrics[rec.component].result) :
                        LET series == metrics[rec.component].result[s]
                        IN  /\ series.metric["namespace"] = rec.hub
                            /\ series.metric["username"] = rec.user
                            /\ SamplesOn(series.values, rec.date) # {}

\* one series had two samples with usage on one day and one on the next
C14_Reached ==
    /\ UsageDone
    /\ \E c \in DOMAIN metrics : \E s \in 1..Len(metrics[c].result) :
          LET values == metrics[c].result[s].values
          IN  /\ Len(values) = 3
              /\ \A j \in 1..3 : values[j][2] = 1
    /\ \E i \in 1..Len(absolute_usage) : absolute_usage[i].value = 2

\* C15: the call returns exactly the normalized records whose hub and user
\* equal the arguments given, ordered by (date, component, hub, user);
\* without filters no record is dropped, so samples give a non-empty result.
C15_FilteredAndSorted ==
    UsageDone =>
        LET Wanted(rec) ==
                /\ request.hub_name # None => rec.hub = request.hub_name
                /\ request.user_name # None => rec.user = request.user_name
        IN  /\ \A i \in 1..Len(result) :
                  /\ Wanted(result[i])
                  /\ \E j \in 1..Len(cost_factors) : cost_factors[j] = result[i]
            /\ \A j \in 1..Len(cost_factors) :
                  Wanted(cost_factors[j]) =>
                      Cardinality({i \in 1..Len(result) :
                                      result[i] = cost_factors[j]}) = 1
            /\ \A i, j \in 1..Len(result) :
                  i < j =>
                      \/ result[i].date < result[j].date
                      \/ /\ result[i].date = result[j].date
                         /\ <<StrRank(result[i].component), StrRank(result[i].hub),
                               StrRank(result[i].user)>>
                              # <<StrRank(result[j].component),
                                   StrRank(result[j].hub), StrRank(result[j].user)>>
                         /\ StrRank(result[i].component) <= StrRank(result[j].component)
                         /\ result[i].component = result[j].component =>
                               /\ StrRank(result[i].hub) <= StrRank(result[j].hub)
                               /\ result[i].hub = result[j].hub =>
                                     StrRank(result[i].user) < StrRank(result[j].user)
            /\ (request.hub_name = None /\ request.user_name = None) =>
                  /\ Len(result) = Len(cost_factors)
                  /\ (\E c \in DOMAIN metrics : metrics[c].result # <<>>) =>
                        result # <<>>

\* with a user filter, records of another user were dropped and the records
\* kept came out in another order than the store listed them
C15_Reached ==
    /\ UsageDone /\ request.user_name = "alice"
    /\ \E j \in 1..Len(cost_factors) : cost_factors[j].user = "bob"
    /\ Len(result) = 2
    /\ \E i, j \in 1..Len(cost_factors) :
          i < j /\ cost_factors[i] = result[2] /\ cost_factors[j] = result[1]

----------------------------------------------------------------------------
(* C16 .. C20 *)

PerUser == op = "query_total_storage_costs_per_user"

\* the billing API answered both queries in full
BillingAnswered ==
    \A i \in 1..Len(upstream) : ~upstream[i].Fails /\ ~upstream[i].NextPageToken

\* the metrics store answered the share query with a well-formed payload
SharesAnswered ==
    /\ ~metrics.share.raises /\ metrics.share.status = "success"
    /\ metrics.share.has_data /\ metrics.share.has_result
    /\ \A s \in 1..Len(metrics.share.result) :
          "directory" \in DOMAIN metrics.share.result[s].metric

\* the (directory, share) pairs the fraction source holds for a date
FractionsOn(date) ==
    UNION {
        {<<metrics.share.result[s].metric["directory"],
           metrics.share.result[s].values[j][2]>> :
            j \in {x \in 1..Len(metrics.share.result[s].values) :
                     metrics.share.result[s].values[x][1] \div StepsPerDay = date}} :
        s \in 1..Len(metrics.share.result)}

\* the (user, cost) pairs the call returned for a date
ReturnedOn(date) ==
    UNION {{<<result[i].v[j].k, result[i].v[j].v>> : j \in 1..Len(result[i].v)} :
              i \in {x \in 1..Len(result) : result[x].k = date}}

ReturnedDates == {result[i].k : i \in 1..Len(result)}

\* the dates with a "home storage" record among the per-component records
StorageDates ==
    {home_storage_costs[i].date :
        i \in {x \in 1..Len(home_storage_costs) :
                 home_storage_costs[x].label = "home storage"}}

\* C16: whenever both sources answer the call completes, and the cost of a
\* user on a date is the home storage cost of the date, as returned by
\* query_total_costs_per_component, times the user's fraction (in 1/10000
\* USD: cents x 100 x quarters / 4).
C16_UserCostIsShare ==
    (PerUser /\ BillingAnswered /\ SharesAnswered) =>
        /\ outcome = "ok"
        /\ \A date \in StorageDates :
              ReturnedOn(date) =
                  {<<f[1], CostOf(home_storage_costs, date, "home storage", 0)
                              * 25 * f[2]>> : f \in FractionsOn(date)}

\* C17: a date found in one source only has no entry in the output, and a
\* date found in both has exactly the users of the fraction source.
C17_JoinOnDate ==
    (PerUser /\ outcome = "ok" /\ SharesAnswered) =>
        /\ ReturnedDates =
              {date \in StorageDates : FractionsOn(date) # {}}
        /\ \A date \in ReturnedDates :
              {u[1] : u \in ReturnedOn(date)} = {f[1] : f \in FractionsOn(date)}

\* a metrics payload that lacks a field its consumer expects
MalformedUsage(p) ==
    /\ ~p.raises
    /\ \/ p.status # "success" \/ ~p.has_data \/ ~p.has_result
       \/ \E s \in 1..Len(p.result) :
             {"namespace", "username"} \ DOMAIN p.result[s].metric # {}

MalformedShares(p) ==
    /\ ~p.raises
    /\ \/ p.status # "success" \/ ~p.has_data \/ ~p.has_result
       \/ \E s \in 1..Len(p.result) : "directory" \notin DOMAIN p.result[s].metric

\* the i-th billing query of the call raised: the API call failed, or its
\* response carried a next-page token
BillingFailed(i) == upstream[i].Fails \/ upstream[i].NextPageToken

BillingException(i) == IF upstream[i].Fails THEN "ClientError" ELSE "ValueError"

\* the first billing query that raised ended the call: its exception reaches
\* the caller, no record is returned, and no billing call follows it
BillingFailsWhole ==
    \A i \in 1..Len(upstream) :
        (BillingFailed(i) /\ \A j \in 1..(i - 1) : ~BillingFailed(j)) =>
            /\ outcome = BillingException(i)
            /\ result = <<>>
            /\ ce_calls = i

\* C18: when a sub-query of query_total_costs, query_total_costs_per_component,
\* query_usage or query_total_storage_costs_per_user fails, the operation ends
\* with that failure and returns no record, also none of the sub-queries that
\* succeeded before, and the failed upstream call was issued once.
C18_FailWholeNoRetry ==
    /\ op \in {"query_total_costs", "query_total_costs_per_component"} =>
          BillingFailsWhole
    /\ PerUser =>
          /\ BillingFailsWhole
          /\ (\E i \in 1..Len(upstream) : BillingFailed(i)) => prom_calls = 0
          /\ metrics.share.raises =>
                /\ outcome = "HTTPError" /\ result = <<>>
                /\ ce_calls = 2 /\ prom_calls = 1
    /\ op = "query_usage" =>
          LET queried == Queried(request.component_name)
          IN  \A i \in 1..Len(queried) :
                  (/\ metrics[queried[i]].raises
                   /\ \A j \in 1..(i - 1) :
                         /\ ~metrics[queried[j]].raises
                         /\ ~MalformedUsage(metrics[queried[j]])) =>
                      /\ outcome = "HTTPError" /\ result = <<>>
                      /\ prom_calls = i

\* the first metrics query of a call gave a day's usage and the second failed
C18_Reached ==
    /\ op = "query_usage" /\ request.component_name = None
    /\ absolute_usage # <<>>
    /\ metrics[USAGE_MAP[2]].raises
    /\ outcome = "HTTPError" /\ result = <<>> /\ prom_calls = 2

\* C19: an operation that consumes a malformed metrics payload fails; it
\* returns no result built from it.
C19_MalformedFails ==
    /\ (op = "query_usage"
          /\ \E c \in DOMAIN metrics : MalformedUsage(metrics[c])) =>
            outcome # "ok"
    /\ (PerUser /\ prom_calls = 1 /\ MalformedShares(metrics.share)) =>
            outcome # "ok"

\* C20: a service name outside the component table is counted under "other"
\* without failing the call, and its warning is logged at most once per
\* process.
C20_UnmappedIsOther ==
    /\ \A n \in Services : warnings[n] <= 1
    /\ (PerComponentComplete /\ Falsy(request.component)) =>
          \A i \in 1..Len(upstream[1].ResultsByTime) :
              (\E j \in 1..Len(upstream[1].ResultsByTime[i].Groups) :
                  upstream[1].ResultsByTime[i].Groups[j].Key
                      \notin DOMAIN SERVICE_COMPONENT_MAP) =>
                  /\ outcome = "ok"
                  /\ HoldsSum(processed_response,
                              upstream[1].ResultsByTime[i].Start, "other",
                              upstream[1].ResultsByTime[i].Groups)

----------------------------------------------------------------------------
(* C21 - C22 *)

\* the call of query_total_costs_per_component got two answers in full, so
\* nothing upstream keeps it from reaching the reallocation
BothAnswered ==
    /\ PerComponent
    /\ \A i \in 1..Len(upstream) :
          ~upstream[i].Fails /\ ~upstream[i].NextPageToken

RECURSIVE DateTotal(_, _)
\* the costs of the records of one date, summed
DateTotal(records, date) ==
    IF records = <<>> THEN 0
    ELSE (IF Head(records).date = date THEN Head(records).cost ELSE 0)
            + DateTotal(Tail(records), date)

\* the storage-tagged amount of the subset response for a date, 0 when the
\* response holds no line for it
SubsetAmount(date) ==
    LET days == {i \in 1..Len(upstream[2].ResultsByTime) :
                    upstream[2].ResultsByTime[i].Start = date}
    IN  IF days = {} THEN 0
        ELSE HomeStorageCost(
                upstream[2].ResultsByTime[CHOOSE i \in days : TRUE].Groups)

SubsetDates ==
    {upstream[2].ResultsByTime[i].Start : i \in 1..Len(upstream[2].ResultsByTime)}

\* C21: for a date with a compute record and a storage-tagged amount s,
\* 0 < s <= compute, the call returns records of that date whose costs sum to
\* what the mapping step computed; on any date the sum never drops, and it
\* rises only where s exceeds the compute cost or no compute record exists.
C21_TotalConserved ==
    BothAnswered =>
        \A date \in SubsetDates :
            LET s == SubsetAmount(date)
                computeBefore == CostOf(processed_response, date, "compute", -1)
                before == DateTotal(processed_response, date)
                after == DateTotal(result, date)
            IN  /\ (computeBefore >= 0 /\ 0 < s /\ s <= ParseCost(computeBefore)) =>
                      /\ outcome = "ok"
                      /\ after = before
                /\ outcome = "ok" =>
                      /\ after >= before
                      /\ after # before =>
                            (computeBefore < 0 \/ s > ParseCost(computeBefore))

\* the reallocation may change the record: compute or home storage on a date
\* with a storage-tagged amount above 0
Reallocated(rec) ==
    /\ rec.label \in {"compute", "home storage"}
    /\ SubsetAmount(rec.date) > 0

\* C22: every record of the mapping step is returned, and one that is not a
\* compute or home storage record of a date with a storage-tagged amount
\* above 0 is returned as the mapping step computed it; the call returns no
\* record besides these and the home storage records of such dates.
C22_OthersUntouched ==
    BothAnswered =>
        /\ \A i \in 1..Len(processed_response) :
              LET rec == processed_response[i]
              IN  /\ RecordsOf(result, rec.date, rec.label) # {}
                  /\ ~Reallocated(rec) =>
                        \A k \in RecordsOf(result, rec.date, rec.label) :
                            result[k] = rec
        /\ \A k \in 1..Len(result) :
              ~Reallocated(result[k]) =>
                  \E i \in 1..Len(processed_response) :
                      processed_response[i] = result[k]

----------------------------------------------------------------------------
(* Specifications *)

UsageStart ==
    /\ metrics = <<>>
    /\ prom_calls = 0
    /\ absolute_usage = <<>>
    /\ cost_factors = <<>>

Init ==
    /\ DateStart /\ StoreStart /\ HistStart /\ CallerStart
    /\ CostStart /\ UsageStart /\ LogStart

\* the date-range parser, request after request
SpecDate == Init /\ [][ParseRequest]_vars

\* the cache under one caller
CacheNext == Call \/ Tick

SpecCache == Init /\ [][CacheNext]_vars

\* the cache under concurrent callers
ConcNext ==
    \/ \E t \in Callers, k \in ConcKeys : Begin(t, k)
    \/ \E t \in Callers : LookupStep(t)
    \/ \E t \in Callers : ComputeStep(t)
    \/ \E t \in Callers : StoreStep(t)
    \/ \E t \in Callers : Return(t)
    \/ (clock < Lifetime /\ Tick)

SpecConc == Init /\ [][ConcNext]_vars

\* the billing aggregation, call after call
CostNext ==
    \/ HubNames
    \/ TotalCosts
    \/ TotalCostsPerHub
    \/ TotalCostsPerComponent
    \/ TotalStorageCostsPerUser
    \/ NextRequest

Spec == Init /\ [][CostNext]_vars

\* the usage aggregation, call after call
UsageNext == QueryUsage \/ NextRequest

SpecUsage == Init /\ [][UsageNext]_vars

\* every aggregation of the service, call after call
AllNext == CostNext \/ UsageNext

SpecAll == Init /\ [][AllNext]_vars

====
